---- MODULE Spec2Model ----
(***************************************************************************)
(* Matrix identifier grammar engine of ruma: length bounds, sigil and      *)
(* delimiter checks, authority parsing, the dual-grammar event identifier, *)
(* the random event-id generator, the canonical renderer and the           *)
(* server-key-id validator.                                                *)
(*                                                                         *)
(* A Rust &str is modelled as the sequence of its bytes, each byte written *)
(* as a one-character string; every character of the model's alphabet is   *)
(* ASCII, so byte length and byte offsets are sequence lengths and         *)
(* (0-based) sequence positions.                                           *)
(***************************************************************************)
EXTENDS Integers, Sequences, FiniteSets, TLC

VARIABLES input, op, sigil, out, id, made

vars == <<input, op, sigil, out, id, made>>

(***************************************************************************)
(* Bounds of the model.                                                    *)
(***************************************************************************)
\* Every string over FreeAlphabet of at most this many bytes is an input.
MaxFree == 4
\* Long inputs have total lengths within Slack of every length threshold.
Slack == 1

(***************************************************************************)
(* Program constants.                                                      *)
(***************************************************************************)
MAX_BYTES == 255
MIN_CHARS == 4
SIGIL_BYTES == 1
\* The default port of lib.rs: `port == 443`, `unwrap_or(443)`.
DEFAULT_PORT == 443
\* generate_localpart(18) in EventId::new.
LOCALPART_LEN == 18
\* NonZeroU8::new(19) in EventId::new.
NEW_COLON_IDX == 19
\* `as u8`: the number of values of an unsigned byte.
U8_RANGE == 256
\* u16::MAX + 1, the first port the url crate and u16::from_str reject.
U16_RANGE == 65536

(***************************************************************************)
(* Results and options.                                                    *)
(***************************************************************************)
Ok(v) == [tag |-> "Ok", val |-> v]
Err(e) == [tag |-> "Err", err |-> e]
IsOk(r) == r.tag = "Ok"
IsErr(r) == r.tag = "Err"

Some(v) == [some |-> TRUE, val |-> v]
None == [some |-> FALSE]

Unit == <<>>

(***************************************************************************)
(* str operations of the Rust standard library.                            *)
(***************************************************************************)
\* s[from..to], 0-based and half-open.
Slice(s, from, to) == SubSeq(s, from + 1, to)

\* s[from..]
SliceFrom(s, from) == SubSeq(s, from + 1, Len(s))

\* str::contains(c)
contains(s, c) == \E i \in 1..Len(s) : s[i] = c

\* str::find(c): Some(byte offset of the first c) or None.
find(s, c) ==
    IF contains(s, c)
    THEN Some((CHOOSE i \in 1..Len(s) : s[i] = c /\ \A j \in 1..(i - 1) : s[j] # c) - 1)
    ELSE None

\* str::starts_with(c)
starts_with(s, c) == Len(s) > 0 /\ s[1] = c

\* `n as u8`
as_u8(n) == n % U8_RANGE

\* NonZeroU8::new(n)
NonZeroU8_new(n) == IF n = 0 THEN None ELSE Some(n)

Digits == <<"0", "1", "2", "3", "4", "5", "6", "7", "8", "9">>

IsDigit(c) == \E i \in 1..10 : Digits[i] = c

DigitVal(c) == (CHOOSE i \in 1..10 : Digits[i] = c) - 1

\* The decimal text of n >= 0 ({} of a u8 or u16).
RECURSIVE to_string(_)
to_string(n) ==
    IF n < 10 THEN <<Digits[n + 1]>>
    ELSE to_string(n \div 10) \o <<Digits[(n % 10) + 1]>>

\* The letters of the model's alphabet.
LowerLetters == {"a", "b", "d", "e", "z"}
UpperLetters == {"A", "E", "Z"}

\* char::to_ascii_lowercase
LowerChar(c) ==
    CASE c = "A" -> "a"
      [] c = "E" -> "e"
      [] c = "Z" -> "z"
      [] OTHER -> c

Lower(s) == [i \in 1..Len(s) |-> LowerChar(s[i])]

\* u8::is_ascii_alphanumeric
is_ascii_alphanumeric(c) == c \in LowerLetters \/ c \in UpperLetters \/ IsDigit(c)

(***************************************************************************)
(* The url crate, as far as lib.rs uses it: Url::parse of                  *)
(* "https://" + raw_host, then Url::host and Url::port.  Of the characters *)
(* of the model's alphabet, '/' ends the authority, ':' separates host and *)
(* port, and every other one is a legal domain character.                  *)
(***************************************************************************)
\* The input with its leading slashes dropped (the special-scheme authority
\* state ignores any number of slashes after "https:").
RECURSIVE SkipSlashes(_)
SkipSlashes(s) ==
    IF Len(s) > 0 /\ s[1] = "/" THEN SkipSlashes(Tail(s)) ELSE s

\* The authority: everything before the first '/'.
Authority(s) ==
    LET slash == find(s, "/") IN
    IF slash.some THEN Slice(s, 0, slash.val) ELSE s

\* One step of reading an IPv4 number into four bytes (big-endian);
\* <<>> once the number no longer fits in 32 bits.
Ipv4MulAdd(b, base, d) ==
    IF b = <<>> THEN <<>>
    ELSE LET t4 == b[4] * base + d
             t3 == b[3] * base + (t4 \div U8_RANGE)
             t2 == b[2] * base + (t3 \div U8_RANGE)
             t1 == b[1] * base + (t2 \div U8_RANGE)
         IN IF t1 >= U8_RANGE THEN <<>>
            ELSE <<t1, t2 % U8_RANGE, t3 % U8_RANGE, t4 % U8_RANGE>>

RECURSIVE Ipv4Number(_, _, _)
Ipv4Number(s, base, acc) ==
    IF s = <<>> THEN acc
    ELSE Ipv4Number(Tail(s), base, Ipv4MulAdd(acc, base, DigitVal(Head(s))))

\* Display of an Ipv4Addr.
Ipv4Display(b) ==
    to_string(b[1]) \o <<".">> \o to_string(b[2]) \o <<".">>
        \o to_string(b[3]) \o <<".">> \o to_string(b[4])

\* Host::parse on a non-empty host without brackets: the domain is lower-cased;
\* a host that is one number (octal after a leading 0) is an IPv4 address.
\* The value is the host's Display text.
Host_parse(h) ==
    LET domain == Lower(h)
        numeric == \A i \in 1..Len(domain) : IsDigit(domain[i])
        octal == Len(domain) > 1 /\ domain[1] = "0"
        base == IF octal THEN 8 ELSE 10
        digits == IF octal THEN Tail(domain) ELSE domain
        valid == \A i \in 1..Len(digits) : DigitVal(digits[i]) < base
    IN IF numeric /\ valid
       THEN LET addr == Ipv4Number(digits, base, <<0, 0, 0, 0>>) IN
            IF addr = <<>> THEN Err("InvalidIpv4Address") ELSE Ok(Ipv4Display(addr))
       ELSE Ok(domain)

\* Parser::parse_port: decimal digits up to the end of the authority; the
\* value must fit a u16; no digit at all, or the scheme's default port, is None.
RECURSIVE PortNumber(_, _)
PortNumber(s, acc) ==
    IF s = <<>> THEN acc
    ELSE IF acc >= U16_RANGE THEN acc
    ELSE PortNumber(Tail(s), acc * 10 + DigitVal(Head(s)))

parse_port(p) ==
    IF \E i \in 1..Len(p) : ~IsDigit(p[i]) THEN Err("InvalidPort")
    ELSE LET n == PortNumber(p, 0) IN
         IF n >= U16_RANGE THEN Err("InvalidPort")
         ELSE IF Len(p) = 0 \/ n = DEFAULT_PORT THEN Ok(None)
         ELSE Ok(Some(n))

\* Url::parse(&format!("https://{}", raw_host)), reduced to the host and the
\* port of the parsed Url.
Url_parse(raw_host) ==
    LET authority == Authority(SkipSlashes(raw_host))
        colon == find(authority, ":")
        host_str == IF colon.some THEN Slice(authority, 0, colon.val) ELSE authority
        port_str == IF colon.some THEN SliceFrom(authority, colon.val + 1) ELSE <<>>
    IN IF Len(host_str) = 0 THEN Err("EmptyHost")
       ELSE LET host == Host_parse(host_str)
                port == parse_port(port_str)
            IN IF IsErr(host) THEN host
               ELSE IF IsErr(port) THEN port
               ELSE Ok([host |-> Some(host.val), port |-> port.val])

\* From<url::ParseError> for Error, applied by the `?` on Url::parse.
From_ParseError(e) == Err("InvalidServerName")

(***************************************************************************)
(* src/src/lib.rs                                                          *)
(***************************************************************************)
display_mut_always_port(sigil_, localpart_, hostname, port) ==
    <<sigil_>> \o localpart_ \o <<":">> \o hostname \o <<":">> \o to_string(port)

\* `Display` implementation shared by identifier types.
display(sigil_, localpart_, hostname, port) ==
    IF port = DEFAULT_PORT
    THEN <<sigil_>> \o localpart_ \o <<":">> \o hostname
    ELSE <<sigil_>> \o localpart_ \o <<":">> \o hostname \o <<":">> \o to_string(port)

\* generate_localpart(length): the strings the random generator can return
\* are all strings of `length` alphanumeric characters; the model draws from
\* those made of one character repeated over each half.
generate_localpart(length) ==
    { [i \in 1..length |-> IF 2 * i <= length THEN c1 ELSE c2] :
        c1 \in {"a", "Z", "4"}, c2 \in {"a", "Z", "4"} }

validate_id_mut_bounds(id_) ==
    IF Len(id_) > MAX_BYTES + 1 THEN Err("MaximumLengthExceeded")
    ELSE IF Len(id_) < MIN_CHARS - 1 THEN Err("MinimumLengthNotSatisfied")
    ELSE Ok(Unit)

\* Checks if an identifier is within the acceptable byte lengths.
validate_id(id_) ==
    IF Len(id_) > MAX_BYTES THEN Err("MaximumLengthExceeded")
    ELSE IF Len(id_) < MIN_CHARS THEN Err("MinimumLengthNotSatisfied")
    ELSE Ok(Unit)

\* Parses the localpart, host, and port from a string identifier.
parse_id(required_sigil, id_) ==
    LET valid == validate_id(id_) IN
    IF IsErr(valid) THEN valid
    ELSE IF ~starts_with(id_, required_sigil) THEN Err("MissingSigil")
    ELSE LET delimiter_index == find(id_, ":") IN
         IF ~delimiter_index.some THEN Err("MissingDelimiter")
         ELSE LET localpart_ == Slice(id_, 1, delimiter_index.val)
                  raw_host == SliceFrom(id_, delimiter_index.val + SIGIL_BYTES)
                  url == Url_parse(raw_host)
              IN IF IsErr(url) THEN From_ParseError(url.err)
                 ELSE IF ~url.val.host.some THEN Err("InvalidHost")
                 ELSE LET port == IF url.val.port.some THEN url.val.port.val
                                  ELSE DEFAULT_PORT
                      IN Ok([localpart |-> localpart_,
                             host |-> url.val.host.val,
                             port |-> port])

(***************************************************************************)
(* The validation functions event_id.rs calls: validate_id(id, sigils),    *)
(* parse_id(id, sigils) and is_valid_server_name(name).  They take the     *)
(* list of valid sigils and return the delimiter offset; lib.rs holds the  *)
(* earlier one-sigil forms.  Steps and errors follow the shared grammar    *)
(* validator and the authority parser of the design.                       *)
(***************************************************************************)
\* u16::from_str on a port: at least one digit, only digits, at most u16::MAX.
valid_port(p) ==
    /\ Len(p) > 0
    /\ \A i \in 1..Len(p) : IsDigit(p[i])
    /\ PortNumber(p, 0) < U16_RANGE

\* The authority parser: host[:port], the host a non-empty run of
\* alphanumerics, '-' and '.', the port numeric.
server_name_validate(server_name) ==
    LET colon == find(server_name, ":")
        end_of_host == IF colon.some THEN colon.val ELSE Len(server_name)
        host == Slice(server_name, 0, end_of_host)
    IN IF Len(host) = 0 THEN Err("InvalidHost")
       ELSE IF \E i \in 1..Len(host) :
                 ~(is_ascii_alphanumeric(host[i]) \/ host[i] \in {"-", "."})
       THEN Err("InvalidServerName")
       ELSE IF colon.some /\ ~valid_port(SliceFrom(server_name, end_of_host + 1))
       THEN Err("InvalidServerName")
       ELSE Ok(Unit)

is_valid_server_name(server_name) == IsOk(server_name_validate(server_name))

\* validate_id(id, valid_sigils): the length bounds of lib.rs, then the sigil.
validate_id_with_sigils(id_, valid_sigils) ==
    LET valid == validate_id(id_) IN
    IF IsErr(valid) THEN valid
    ELSE IF id_[1] \notin valid_sigils THEN Err("MissingSigil")
    ELSE Ok(Unit)

\* parse_id(id, valid_sigils): validate_id, the first ':', the authority after
\* it; the result is the offset of that ':' as a NonZeroU8.
parse_id_with_sigils(id_, valid_sigils) ==
    LET valid == validate_id_with_sigils(id_, valid_sigils) IN
    IF IsErr(valid) THEN valid
    ELSE LET colon_idx == find(id_, ":") IN
         IF ~colon_idx.some THEN Err("MissingDelimiter")
         ELSE LET server == server_name_validate(SliceFrom(id_, colon_idx.val + 1)) IN
              IF IsErr(server) THEN server
              ELSE Ok(as_u8(colon_idx.val))

(***************************************************************************)
(* src/ruma-identifiers/src/event_id.rs                                    *)
(* An EventId is [full_id, colon_idx], colon_idx an Option<NonZeroU8>.     *)
(***************************************************************************)
EventId_new_mut_idx(server_name_, localpart_) ==
    IF ~is_valid_server_name(server_name_) THEN Err("InvalidServerName")
    ELSE Ok([full_id |-> <<"$">> \o localpart_ \o <<":">> \o server_name_,
             colon_idx |-> NonZeroU8_new(LOCALPART_LEN)])

\* EventId::new(server_name), localpart_ being what generate_localpart(18)
\* returned.
EventId_new(server_name_, localpart_) ==
    IF ~is_valid_server_name(server_name_) THEN Err("InvalidServerName")
    ELSE Ok([full_id |-> <<"$">> \o localpart_ \o <<":">> \o server_name_,
             colon_idx |-> NonZeroU8_new(NEW_COLON_IDX)])

localpart_mut_from_sigil(self) ==
    LET idx == IF self.colon_idx.some THEN self.colon_idx.val ELSE Len(self.full_id)
    IN Slice(self.full_id, 0, idx)

\* EventId::localpart
localpart(self) ==
    LET idx == IF self.colon_idx.some THEN self.colon_idx.val ELSE Len(self.full_id)
    IN Slice(self.full_id, 1, idx)

\* EventId::server_name
server_name(self) ==
    IF self.colon_idx.some
    THEN Some(SliceFrom(self.full_id, self.colon_idx.val + 1))
    ELSE None

\* AsRef<str> for EventId, of common_impls!: the stored text.
as_ref(self) == self.full_id

\* The text with a trailing ":443" removed.
StripDefaultPort(s) ==
    LET n == Len(s) IN
    IF n >= 4 /\ SubSeq(s, n - 3, n) = <<":", "4", "4", "3">>
    THEN SubSeq(s, 1, n - 4)
    ELSE s

try_from_mut_opaque_unchecked(event_id) ==
    IF contains(event_id, ":")
    THEN LET colon_idx == parse_id_with_sigils(event_id, {"$"}) IN
         IF IsErr(colon_idx) THEN colon_idx
         ELSE Ok([full_id |-> event_id, colon_idx |-> Some(colon_idx.val)])
    ELSE LET valid == validate_id(event_id) IN
         IF IsErr(valid) THEN valid
         ELSE Ok([full_id |-> event_id, colon_idx |-> None])

try_from_mut_always_parse(event_id) ==
    LET colon_idx == parse_id_with_sigils(event_id, {"$"}) IN
    IF IsErr(colon_idx) THEN colon_idx
    ELSE Ok([full_id |-> event_id, colon_idx |-> Some(colon_idx.val)])

try_from_mut_canonical(event_id) ==
    IF contains(event_id, ":")
    THEN LET colon_idx == parse_id_with_sigils(event_id, {"$"}) IN
         IF IsErr(colon_idx) THEN colon_idx
         ELSE Ok([full_id |-> StripDefaultPort(event_id),
                  colon_idx |-> Some(colon_idx.val)])
    ELSE LET valid == validate_id_with_sigils(event_id, {"$"}) IN
         IF IsErr(valid) THEN valid
         ELSE Ok([full_id |-> event_id, colon_idx |-> None])

\* try_from(event_id)
try_from(event_id) ==
    IF contains(event_id, ":")
    THEN LET colon_idx == parse_id_with_sigils(event_id, {"$"}) IN
         IF IsErr(colon_idx) THEN colon_idx
         ELSE Ok([full_id |-> event_id, colon_idx |-> Some(colon_idx.val)])
    ELSE LET valid == validate_id_with_sigils(event_id, {"$"}) IN
         IF IsErr(valid) THEN valid
         ELSE Ok([full_id |-> event_id, colon_idx |-> None])

(***************************************************************************)
(* src/ruma-identifiers-validation/src/server_key_id.rs                    *)
(***************************************************************************)
ed25519 == <<"e", "d", "2", "5", "5", "1", "9">>

\* ServerKeyAlgorithm::from_str: exact membership in the known algorithms.
ServerKeyAlgorithm_from_str(algorithm) ==
    IF algorithm \in {ed25519} THEN Ok(algorithm) ELSE Err("UnknownVariant")

validate_server_key_algorithm(algorithm) ==
    IF IsOk(ServerKeyAlgorithm_from_str(algorithm)) THEN Ok(Unit)
    ELSE Err("UnknownKeyAlgorithm")

validate_version(version) ==
    IF Len(version) = 0 THEN Err("MinimumLengthNotSatisfied") ELSE Ok(Unit)

\* server_key_id::validate
validate(s) ==
    LET found == find(s, ":") IN
    IF ~found.some THEN Err("MissingServerKeyDelimiter")
    ELSE LET colon_idx == NonZeroU8_new(as_u8(found.val)) IN
         IF ~colon_idx.some THEN Err("UnknownKeyAlgorithm")
         ELSE LET algorithm == validate_server_key_algorithm(Slice(s, 0, colon_idx.val))
                  version == validate_version(SliceFrom(s, colon_idx.val + 1))
              IN IF IsErr(algorithm) THEN algorithm
                 ELSE IF IsErr(version) THEN version
                 ELSE Ok(colon_idx.val)

(***************************************************************************)
(* Inputs: the untrusted strings handed to the constructors.               *)
(***************************************************************************)
FreeAlphabet == {"$", ":", "a", "A", "4", "/"}

FreeStrings == UNION { [1..n -> FreeAlphabet] : n \in 0..MaxFree }

Pad(n) == [i \in 1..n |-> "a"]

\* head, then 'a's, then tail, `total` bytes in all.
Fill(head, tail, total) == head \o Pad(total - Len(head) - Len(tail)) \o tail

Heads == { <<>>, <<"$">>, <<"!">>, <<"a">>, <<"$", ":">> }

Tails ==
    { <<>>,
      <<":", "a">>,
      <<":", "a", "A">>,
      <<":", "a", ":", "4", "4", "3">>,
      <<":", "a", ":", "0", "4", "4", "3">>,
      <<":", "a", ":", "5", "0", "0", "0">>,
      <<":", "a", ":", "0", "5", "0">>,
      <<":", "a", ":">>,
      <<":", "/">>,
      <<":", "a", ":", "z">>,
      <<":", "a", ":", "4", "4", "3", "4", "4", "3">>,
      <<":", "4">> }

\* Total lengths around the largest accepted length.
LongTotals == (MAX_BYTES - Slack)..(MAX_BYTES + Slack + 1)

EventInputs ==
    { h \o Pad(k) \o t : h \in Heads, t \in Tails, k \in 0..(Slack + 1) }
    \cup { Fill(h, t, n) : h \in Heads, t \in Tails, n \in LongTotals }

\* Server names whose generated identifier is about MAX_BYTES long.
ServerNameInputs ==
    { Fill(<<>>, t, n - NEW_COLON_IDX - 1) :
        t \in { <<>>, <<":", "4">>, <<"/">> }, n \in LongTotals }

\* Key identifiers whose first ':' is at a small offset, or at an offset
\* around the range of a byte, or around that range plus the length of a
\* known algorithm.
KeyAlgorithms ==
    { <<>>, ed25519, <<"E", "d", "2", "5", "5", "1", "9">>, <<"b", "a", "d">> }

KeyVersions == { <<>>, <<"a", "b", "e">>, <<"a", ":", "b">>, <<"1">> }

KeyOffsets ==
    ((U8_RANGE - Slack)..(U8_RANGE + Slack))
    \cup ((U8_RANGE + Len(ed25519) - Slack)..(U8_RANGE + Len(ed25519) + Slack))

KeyInputs ==
    { a \o Pad(k) \o sep \o v :
        a \in KeyAlgorithms, k \in 0..Slack, sep \in { <<>>, <<":">> }, v \in KeyVersions }
    \cup { Fill(a, <<>>, off) \o sep \o v :
        a \in KeyAlgorithms, off \in KeyOffsets,
        sep \in { <<>>, <<":">> }, v \in KeyVersions }

Inputs == FreeStrings \cup EventInputs \cup ServerNameInputs \cup KeyInputs

Sigils == {"$", "!"}

(***************************************************************************)
(* The state machine: an input is chosen, a constructor or validator is    *)
(* applied to it, and the accessors are applied to what was constructed.   *)
(*   input  the untrusted string                                           *)
(*   op     the last operation applied ("init": none yet)                  *)
(*   sigil  the required sigil passed to parse_id                          *)
(*   out    what the last operation returned                               *)
(*   id     the value the constructor returned, when it returned Ok        *)
(*   made   the constructor that returned id                               *)
(***************************************************************************)
Init ==
    /\ input \in Inputs
    /\ op = "init"
    /\ sigil = "$"
    /\ out = Ok(Unit)
    /\ id = None
    /\ made = "none"

Construct(name, result) ==
    /\ op = "init"
    /\ op' = name
    /\ out' = result
    /\ id' = IF IsOk(result) THEN Some(result.val) ELSE None
    /\ made' = IF IsOk(result) THEN name ELSE "none"
    /\ UNCHANGED input

\* validate_id(input)
ValidateId ==
    /\ op = "init"
    /\ op' = "validate_id"
    /\ out' = validate_id(input)
    /\ UNCHANGED <<input, sigil, id, made>>

\* parse_id(required_sigil, input)
ParseId ==
    \E required_sigil \in Sigils :
        /\ Construct("parse_id", parse_id(required_sigil, input))
        /\ sigil' = required_sigil

\* display(f, sigil, localpart, &host, port) on what parse_id returned
Display ==
    /\ op = "parse_id"
    /\ made = "parse_id"
    /\ op' = "display"
    /\ out' = Ok(display(sigil, id.val.localpart, id.val.host, id.val.port))
    /\ UNCHANGED <<input, sigil, id, made>>

\* EventId::try_from(input)
TryFrom ==
    /\ Construct("try_from", try_from(input))
    /\ UNCHANGED sigil

\* EventId::new(input)
New ==
    \E generated \in generate_localpart(LOCALPART_LEN) :
        /\ Construct("new", EventId_new(input, generated))
        /\ UNCHANGED sigil

\* An accessor applied to a constructed EventId.
Access(name, result) ==
    /\ op \in {"try_from", "new"}
    /\ made = op
    /\ op' = name
    /\ out' = result
    /\ UNCHANGED <<input, sigil, id, made>>

Localpart == Access("localpart", Ok(localpart(id.val)))

ServerName == Access("server_name", Ok(server_name(id.val)))

AsRef == Access("as_ref", Ok(as_ref(id.val)))

\* The text of a constructed EventId handed back to EventId::try_from.
Revalidate == Access("revalidate", try_from(as_ref(id.val)))

\* server_key_id::validate(input)
KeyValidate ==
    /\ op = "init"
    /\ op' = "validate"
    /\ out' = validate(input)
    /\ UNCHANGED <<input, sigil, id, made>>

Next ==
    \/ ValidateId
    \/ ParseId
    \/ Display
    \/ TryFrom
    \/ New
    \/ Localpart
    \/ ServerName
    \/ AsRef
    \/ Revalidate
    \/ KeyValidate

Spec == Init /\ [][Next]_vars

(***************************************************************************)
(* Vocabulary of the properties.                                           *)
(***************************************************************************)
InBounds(s) == Len(s) >= 4 /\ Len(s) <= 255

HasColon(s) == \E i \in 1..Len(s) : s[i] = ":"

\* The (1-based) position of the first ':' of s.
FirstColon(s) ==
    CHOOSE i \in 1..Len(s) : s[i] = ":" /\ \A j \in 1..(i - 1) : s[j] # ":"

BeforeColon(s) == SubSeq(s, 1, FirstColon(s) - 1)

AfterColon(s) == SubSeq(s, FirstColon(s) + 1, Len(s))

\* C1: a string shorter than 4 bytes or longer than 255 bytes fails
\* validate_id, parse_id and EventId construction (with or without a ':')
\* with the matching length error, whatever its sigil, delimiter or authority.
C1_LengthErrorFirst ==
    op \in {"validate_id", "parse_id", "try_from"} =>
        /\ Len(input) < 4 => out = Err("MinimumLengthNotSatisfied")
        /\ Len(input) > 255 => out = Err("MaximumLengthExceeded")

\* An over-long string with a wrong sigil and a ':' reported as too long by
\* EventId construction.
C1_Witness ==
    /\ op = "try_from"
    /\ Len(input) > 255
    /\ input[1] # "$"
    /\ HasColon(input)
    /\ out = Err("MaximumLengthExceeded")

\* C2: EventId construction of an in-bounds string that does not start with
\* '$' fails with MissingSigil, with a ':' in it or not.
C2_MissingSigilFirst ==
    (op = "try_from" /\ InBounds(input) /\ input[1] # "$") =>
        out = Err("MissingSigil")

\* A string that lacks only the sigil: localpart, ':' and a valid authority.
C2_Witness ==
    /\ op = "try_from"
    /\ InBounds(input)
    /\ input[1] = "a"
    /\ HasColon(input)
    /\ FirstColon(input) > 2
    /\ is_valid_server_name(AfterColon(input))
    /\ out = Err("MissingSigil")

\* C3: of an EventId constructed from s, localpart() is s without its sigil
\* when s has no ':' and the text between the sigil and the first ':'
\* otherwise; server_name() is None when s has no ':' and the whole text after
\* the first ':' otherwise.
C3_Accessors ==
    /\ (op = "localpart" /\ made = "try_from") =>
          out.val = IF HasColon(input)
                    THEN SubSeq(input, 2, FirstColon(input) - 1)
                    ELSE SubSeq(input, 2, Len(input))
    /\ (op = "server_name" /\ made = "try_from") =>
          out.val = IF HasColon(input) THEN Some(AfterColon(input)) ELSE None

\* server_name() of a legacy id with a port: host, ':' and port.
C3_Witness ==
    /\ op = "server_name"
    /\ made = "try_from"
    /\ out.val.some
    /\ HasColon(out.val.val)
    /\ out.val.val = AfterColon(input)

\* C4: an in-bounds string that starts with '$' and has no ':' is accepted by
\* EventId construction as it is, without a delimiter offset, whatever its
\* other characters; EventId construction never returns MissingDelimiter;
\* parse_id returns MissingDelimiter for every in-bounds string that starts
\* with the required sigil and has no ':'.
C4_DelimiterAbsence ==
    /\ (op = "try_from" /\ InBounds(input) /\ input[1] = "$" /\ ~HasColon(input)) =>
          out = Ok([full_id |-> input, colon_idx |-> None])
    /\ op = "try_from" => out # Err("MissingDelimiter")
    /\ (op = "parse_id" /\ InBounds(input) /\ input[1] = sigil /\ ~HasColon(input)) =>
          out = Err("MissingDelimiter")

\* An opaque id holding a character no server name or base64 text has.
C4_Witness ==
    /\ op = "try_from"
    /\ ~HasColon(input)
    /\ \E i \in 1..Len(input) : input[i] = "/"
    /\ IsOk(out)
    /\ ~out.val.colon_idx.some

\* C5: an EventId constructed from s stores s, and as_ref() returns s.
C5_StoresInput ==
    /\ (op = "try_from" /\ IsOk(out)) => out.val.full_id = input
    /\ (op = "as_ref" /\ made = "try_from") => out.val = input

\* as_ref() of a legacy id with an explicit port 443.
C5_Witness ==
    /\ op = "as_ref"
    /\ made = "try_from"
    /\ Len(input) >= 4
    /\ SubSeq(input, Len(input) - 3, Len(input)) = <<":", "4", "4", "3">>
    /\ out.val = input

\* A well-formed legacy-form identifier: in bounds, the sigil, a non-empty
\* localpart, ':' and a valid authority.
WellFormedLegacy(s, sigil_) ==
    /\ InBounds(s)
    /\ s[1] = sigil_
    /\ HasColon(s)
    /\ FirstColon(s) > 2
    /\ is_valid_server_name(AfterColon(s))

HasPort(s) == HasColon(AfterColon(s))

HostText(s) == IF HasPort(s) THEN BeforeColon(AfterColon(s)) ELSE AfterColon(s)

PortText(s) == AfterColon(AfterColon(s))

\* s up to, and without, the ':' before its port.
WithoutPort(s) == SubSeq(s, 1, Len(s) - Len(PortText(s)) - 1)

LowerCaseHost(s) == \A i \in 1..Len(HostText(s)) : HostText(s)[i] \in LowerLetters

\* C6 as stated: rendering a parsed well-formed legacy-form identifier gives
\* the original string, except that an explicit port 443 is dropped.
C6_RoundTripExact ==
    (op = "display" /\ WellFormedLegacy(input, sigil)) =>
        out.val = IF HasPort(input) /\ PortNumber(PortText(input), 0) = 443
                  THEN WithoutPort(input)
                  ELSE input

\* C6, amended: the rendering of a parsed identifier is sigil, the localpart
\* of the input, ':' and the parsed host, followed by ':' and the parsed port
\* in decimal unless that port is 443, which it also is when no port was
\* written.  For a well-formed legacy-form identifier whose host is written
\* in lower-case letters the rendering is the original string when no port
\* is written or the port is written without leading zeros and is not 443,
\* and the original string without its port when the port is written "443".
C6_RoundTripCanonical ==
    op = "display" =>
        /\ id.val.localpart = SubSeq(input, 2, FirstColon(input) - 1)
        /\ out.val = <<sigil>> \o id.val.localpart \o <<":">> \o id.val.host
                       \o (IF id.val.port = 443 THEN <<>>
                           ELSE <<":">> \o to_string(id.val.port))
        /\ (WellFormedLegacy(input, sigil) /\ ~HasPort(input)) => id.val.port = 443
        /\ (WellFormedLegacy(input, sigil) /\ LowerCaseHost(input)) =>
              /\ ~HasPort(input) => out.val = input
              /\ (/\ HasPort(input)
                  /\ Len(PortText(input)) = 1 \/ PortText(input)[1] # "0"
                  /\ PortNumber(PortText(input), 0) # 443) => out.val = input
              /\ (HasPort(input) /\ PortText(input) = <<"4", "4", "3">>) =>
                    out.val = WithoutPort(input)

\* A legacy id with an explicit port 443 rendered without it.
C6_Witness ==
    /\ op = "display"
    /\ WellFormedLegacy(input, sigil)
    /\ LowerCaseHost(input)
    /\ HasPort(input)
    /\ PortText(input) = <<"4", "4", "3">>
    /\ out.val = WithoutPort(input)
    /\ out.val # input

C8_NewRevalidates ==
    (op = "revalidate" /\ made = "new") => IsOk(out)

\* What the first violated rule of the key-id grammar gives for s.
KnownKeyAlgorithms == { ed25519 }

KeyExpected(s) ==
    IF ~HasColon(s) THEN Err("MissingServerKeyDelimiter")
    ELSE IF BeforeColon(s) \notin KnownKeyAlgorithms THEN Err("UnknownKeyAlgorithm")
    ELSE IF Len(AfterColon(s)) = 0 THEN Err("MinimumLengthNotSatisfied")
    ELSE Ok(FirstColon(s) - 1)

\* C9 as stated: key-id validation returns the first violated rule among: no
\* ':' (MissingServerKeyDelimiter), the text before the first ':' not a known
\* algorithm (UnknownKeyAlgorithm), the text after it empty
\* (MinimumLengthNotSatisfied); otherwise the offset of the first ':'.  It
\* never returns InvalidCharacters.
C9_KeyFirstViolatedRule ==
    op = "validate" => (out = KeyExpected(input) /\ out # Err("InvalidCharacters"))

\* C10 as stated: a key id whose first ':' is at an offset above 255 is
\* rejected with UnknownKeyAlgorithm, and an accepted key id has its first
\* ':' at the returned offset, a known algorithm before it and a non-empty
\* version after it.
C10_KeyDelimiterFitsByte ==
    op = "validate" =>
        /\ (HasColon(input) /\ FirstColon(input) - 1 > 255) =>
              out = Err("UnknownKeyAlgorithm")
        /\ IsOk(out) =>
              /\ HasColon(input)
              /\ out.val = FirstColon(input) - 1
              /\ BeforeColon(input) \in KnownKeyAlgorithms
              /\ Len(AfterColon(input)) > 0

\* C11 as stated: every identifier parse_id or EventId construction accepts
\* with a delimiter offset has, after its first ':', an authority its parser
\* accepts and, between the sigil and that ':', a non-empty localpart; so an
\* in-bounds input whose ':' immediately follows the sigil is never accepted.
C11_LocalpartNonEmpty ==
    /\ (op = "parse_id" /\ IsOk(out)) =>
          /\ HasColon(input)
          /\ IsOk(Url_parse(AfterColon(input)))
          /\ out.val.localpart = SubSeq(input, 2, FirstColon(input) - 1)
          /\ Len(out.val.localpart) > 0
    /\ (op = "try_from" /\ IsOk(out) /\ out.val.colon_idx.some) =>
          /\ HasColon(input)
          /\ out.val.colon_idx.val = FirstColon(input) - 1
          /\ is_valid_server_name(AfterColon(input))
          /\ FirstColon(input) > 2
    /\ (op \in {"parse_id", "try_from"} /\ InBounds(input) /\ input[2] = ":") =>
          IsErr(out)

====
